---- MODULE Spec2Model ----
(***************************************************************************)
(* Resource-sharding scheduler of the legate test runner: the worker-count *)
(* resolver (stages/util.py adjust_workers) and the per-resource-kind      *)
(* planners (stages/_linux/omp.py, stages/_linux/gpu.py,                   *)
(* stages/_osx/omp.py, and the CPU planner of spec section 4.2).           *)
(*                                                                         *)
(* Python values are modelled as follows.                                  *)
(*   Optional[T]      <<>> for None, <<v>> for a given value v             *)
(*   str              a sequence of tokens                                 *)
(*   tuple / list     a sequence                                           *)
(*   float            bloat_factor is kept in tenths (15 is 1.5); a value  *)
(*                    that Python computes as a float carries a flag,      *)
(*                    because range() and list repetition reject floats    *)
(*   bytes            GPU memory is kept in KiB, 1 MB being 1024 KiB       *)
(*   dict             a function from keys to values                       *)
(*   list of str      a sequence of strings, each a sequence of tokens     *)
(***************************************************************************)
EXTENDS Integers, Sequences, FiniteSets, TLC

VARIABLES
    pc,        \* "Unplanned", "Planning", "Planned", "Failed"; "Idle" outside a planning call
    kind,      \* the planner of the stage being constructed
    config,    \* the run configuration handed to the planner
    system,    \* the hardware inventory handed to the planner
    result,    \* the outcome of compute_spec: a StageSpec or the exception raised
    warnings,  \* number of warnings emitted by warnings.warn
    r_pc,      \* resolver harness: "call" before adjust_workers, "done" after
    r_args,    \* resolver harness: the arguments of adjust_workers
    r_out,     \* resolver harness: what adjust_workers returned or raised
    call,      \* the last env / shard_args call made on the constructed stage
    replan     \* a second construction of the same stage: its config and outcome

vars == <<pc, kind, config, system, result, warnings, r_pc, r_args, r_out, call, replan>>

(***************************************************************************)
(* Bounds of the model.                                                    *)
(***************************************************************************)
MaxComputed == 5
MaxRequested == 6
MaxCpus == 6
MaxGpus == 4
MaxRanks == 2

(***************************************************************************)
(* Program constants.                                                      *)
(***************************************************************************)
SMALL_SYSMEM == 300

None == <<>>
Some(v) == <<v>>
IsNone(o) == o = <<>>
Val(o) == o[1]

Min(a, b) == IF b < a THEN b ELSE a

RECURSIVE Insert(_, _)
Insert(x, s) ==
    IF s = <<>> THEN <<x>>
    ELSE IF x <= Head(s) THEN <<x>> \o s
    ELSE <<Head(s)>> \o Insert(x, Tail(s))

RECURSIVE sorted(_)
sorted(s) == IF s = <<>> THEN <<>> ELSE Insert(Head(s), sorted(Tail(s)))

RECURSIVE chain(_)
chain(ss) == IF ss = <<>> THEN <<>> ELSE Head(ss) \o chain(Tail(ss))

\* every element n times in place instead of the whole list n times
RECURSIVE repeat_each_element(_, _)
repeat_each_element(s, n) ==
    IF s = <<>> THEN <<>>
    ELSE [k \in 1..(IF n > 0 THEN n ELSE 0) |-> Head(s)] \o repeat_each_element(Tail(s), n)

RECURSIVE repeat(_, _)
repeat(s, n) == IF n <= 0 THEN <<>> ELSE s \o repeat(s, n - 1)

range(a, b) == [k \in 1..(IF b > a THEN b - a ELSE 0) |-> a + k - 1]

(***************************************************************************)
(* stages/util.py: adjust_workers                                          *)
(***************************************************************************)
ZERO_WORKERS_MSG == <<"Current configuration results in zero workers">>

Returned(v) == [ok |-> TRUE, value |-> v, exc |-> "", why |-> "", msg |-> <<>>]
Raised(e, w, m) == [ok |-> FALSE, value |-> 0, exc |-> e, why |-> w, msg |-> m]

adjust_workers_ignoring_request(workers, requested_workers, detail) ==
    IF workers = 0
    THEN Raised("RuntimeError", "zero_workers", ZERO_WORKERS_MSG)
    ELSE Returned(workers)

adjust_workers_no_upper_check(workers, requested_workers, detail) ==
    IF ~IsNone(requested_workers) /\ Val(requested_workers) < 0
    THEN Raised("ValueError", "negative_request", <<"requested workers must be non-negative">>)
    ELSE IF ~IsNone(requested_workers) /\ Val(requested_workers) = 0
    THEN Raised("RuntimeError", "zero_request", <<"requested workers must not be zero">>)
    ELSE Returned(IF IsNone(requested_workers) THEN workers ELSE Val(requested_workers))

adjust_workers_no_detail(workers, requested_workers, detail) ==
    IF ~IsNone(requested_workers) /\ Val(requested_workers) < 0
    THEN Raised("ValueError", "negative_request", <<"requested workers must be non-negative">>)
    ELSE IF ~IsNone(requested_workers) /\ Val(requested_workers) = 0
    THEN Raised("RuntimeError", "zero_request", <<"requested workers must not be zero">>)
    ELSE IF ~IsNone(requested_workers) /\ Val(requested_workers) > workers
    THEN Raised("RuntimeError", "request_exceeds_computed",
                <<"Requested workers is greater than computed workers">>)
    ELSE LET w == IF IsNone(requested_workers) THEN workers ELSE Val(requested_workers)
         IN  IF w = 0
             THEN Raised("RuntimeError", "zero_workers", ZERO_WORKERS_MSG)
             ELSE Returned(w)

adjust_workers(workers, requested_workers, detail) ==
    IF ~IsNone(requested_workers) /\ Val(requested_workers) < 0
    THEN Raised("ValueError", "negative_request", <<"requested workers must be non-negative">>)
    ELSE IF ~IsNone(requested_workers) /\ Val(requested_workers) = 0
    THEN Raised("RuntimeError", "zero_request", <<"requested workers must not be zero">>)
    ELSE IF ~IsNone(requested_workers) /\ Val(requested_workers) > workers
    THEN Raised("RuntimeError", "request_exceeds_computed",
                <<"Requested workers is greater than computed workers">>)
    ELSE LET w == IF IsNone(requested_workers) THEN workers ELSE Val(requested_workers)
         IN  IF w = 0
             THEN Raised("RuntimeError", "zero_workers",
                         ZERO_WORKERS_MSG \o
                         (IF ~IsNone(detail) /\ Val(detail) # <<>>
                          THEN <<" [details: ">> \o Val(detail) \o <<"]">>
                          ELSE <<>>))
             ELSE Returned(w)

(***************************************************************************)
(* The two error classes of the error taxonomy, by the raise statement     *)
(* that produced the exception.                                            *)
(***************************************************************************)
InvalidConfiguration(r) ==
    ~r.ok /\ r.why \in {"negative_request", "zero_request", "request_exceeds_computed"}

ResourceExhausted(r) ==
    ~r.ok /\ r.why \in {"zero_workers", "not_enough_cores"}

(***************************************************************************)
(* stages/util.py: Shard and StageSpec, and what compute_spec hands back:  *)
(* a StageSpec (ok) or the exception that left it.  workers_is_float       *)
(* records that Python holds the worker count as a float.                  *)
(***************************************************************************)
Shard(ranks) == [ranks |-> ranks]

StageSpec(workers, is_float, shards, warned) ==
    [ok |-> TRUE, workers |-> workers, workers_is_float |-> is_float,
     shards |-> shards, warned |-> warned, exc |-> "", why |-> "", msg |-> <<>>]

Raise(e, w, m) ==
    [ok |-> FALSE, workers |-> 0, workers_is_float |-> FALSE,
     shards |-> <<>>, warned |-> FALSE, exc |-> e, why |-> w, msg |-> m]

Reraise(r) == Raise(r.exc, r.why, r.msg)

int(b) == IF b THEN 1 ELSE 0

\* tuple(sorted(chain.from_iterable(cpus[k].ids for k in positions)))
core_ids(cpus, positions) ==
    sorted(chain([n \in 1..Len(positions) |-> cpus[positions[n] + 1].ids]))

all_core_ids_first_group_reserved(cpus) == core_ids(cpus, range(1, Len(cpus)))

all_core_ids(cpus) == core_ids(cpus, range(0, Len(cpus)))

cpu_shards_rank_ignored(cpus, workers, ranks_per_node, procs) ==
    [w \in 1..workers |->
        Shard([r \in 1..ranks_per_node |->
            core_ids(cpus, range((w - 1) * ranks_per_node * procs,
                                 ((w - 1) * ranks_per_node + 1) * procs))])]

cpu_shards_unsorted(cpus, workers, ranks_per_node, procs) ==
    [w \in 1..workers |->
        Shard([r \in 1..ranks_per_node |->
            chain([n \in 1..procs |->
                cpus[((r - 1) + (w - 1) * ranks_per_node) * procs + n].ids])])]

cpu_shards_worker_stride_one(cpus, workers, ranks_per_node, procs) ==
    [w \in 1..workers |->
        Shard([r \in 1..ranks_per_node |->
            core_ids(cpus, range(((r - 1) + (w - 1)) * procs,
                                 ((r - 1) + (w - 1) + 1) * procs))])]

\* The nested loops that build one Shard per worker out of consecutive blocks
\* of procs CPU groups, one block per rank.
cpu_shards(cpus, workers, ranks_per_node, procs) ==
    [w \in 1..workers |->
        Shard([r \in 1..ranks_per_node |->
            core_ids(cpus, range(((r - 1) + (w - 1) * ranks_per_node) * procs,
                                 ((r - 1) + (w - 1) * ranks_per_node + 1) * procs))])]

\* cpus[k] raises IndexError when a block reaches past the inventory.
cpu_shards_in_range(cpus, workers, ranks_per_node, procs) ==
    workers * ranks_per_node * procs <= Len(cpus)

NOT_ENOUGH_MSG ==
    <<"detected core(s) ", "not enough", " for rank(s) per node, each reserving core(s)",
      " with strict CPU pinning">>

(***************************************************************************)
(* stages/_linux/omp.py: OMP.compute_spec                                  *)
(***************************************************************************)
OMP_procs_verbose_counted(cfg) ==
    cfg.omps * cfg.ompthreads + cfg.utility + int(cfg.cpu_pin = "strict")
    + int(cfg.verbose)

OMP_procs_strict_ignored(cfg) == cfg.omps * cfg.ompthreads + cfg.utility

OMP_procs(cfg) ==
    cfg.omps * cfg.ompthreads + cfg.utility + int(cfg.cpu_pin = "strict")

OMP_omp_workers_ranks_ignored(cfg, sys) == Len(sys.cpus) \div OMP_procs(cfg)

OMP_omp_workers(cfg, sys) ==
    Len(sys.cpus) \div (OMP_procs(cfg) * cfg.ranks_per_node)

\* the NUMA memory of the OpenMP groups left out of the memory per test
OMP_mem_workers_numamem_ignored(cfg, sys) ==
    (sys.memory * 10) \div (SMALL_SYSMEM * cfg.bloat_factor)

\* system.memory // ((SMALL_SYSMEM + omps * numamem) * bloat_factor), a float
OMP_mem_workers(cfg, sys) ==
    (sys.memory * 10) \div ((SMALL_SYSMEM + cfg.omps * cfg.numamem) * cfg.bloat_factor)

\* The branch taken on the core-based worker count: raise, return the
\* oversubscribed single worker, or go on to adjust_workers.
OMP_zero_workers_branch_no_memory_test(omp_workers, cpu_pin, mem_workers) ==
    IF omp_workers = 0 /\ cpu_pin = "strict" THEN "raise"
    ELSE IF omp_workers = 0 THEN "oversubscribe"
    ELSE "adjust"

OMP_zero_workers_branch_strict_not_tested(omp_workers, cpu_pin, mem_workers) ==
    IF omp_workers = 0 /\ mem_workers > 0 THEN "oversubscribe"
    ELSE "adjust"

OMP_zero_workers_branch(omp_workers, cpu_pin, mem_workers) ==
    IF omp_workers = 0 /\ cpu_pin = "strict" THEN "raise"
    ELSE IF omp_workers = 0 /\ mem_workers > 0 THEN "oversubscribe"
    ELSE "adjust"

OMP_compute_spec(cfg, sys) ==
    LET cpus == sys.cpus
        ranks_per_node == cfg.ranks_per_node
        procs == OMP_procs(cfg)
    IN  IF procs * ranks_per_node = 0
        THEN Raise("ZeroDivisionError", "division_by_zero",
                   <<"integer division or modulo by zero">>)
        ELSE
        LET omp_workers == OMP_omp_workers(cfg, sys)
            mem_workers == OMP_mem_workers(cfg, sys)
            branch == OMP_zero_workers_branch(omp_workers, cfg.cpu_pin, mem_workers)
        IN  IF branch = "raise"
            THEN Raise("RuntimeError", "not_enough_cores", NOT_ENOUGH_MSG)
            ELSE IF branch = "oversubscribe"
            THEN StageSpec(1, FALSE, <<Shard(<<all_core_ids(cpus)>>)>>, TRUE)
            ELSE
            LET workers == Min(omp_workers, mem_workers)
                is_float == mem_workers < omp_workers
                detail == Some(<<"omp_workers=", ToString(omp_workers),
                                 " mem_workers=", ToString(mem_workers)>>)
                adjusted == adjust_workers(workers, cfg.workers, detail)
            IN  IF ~adjusted.ok THEN Reraise(adjusted)
                ELSE IF IsNone(cfg.workers) /\ is_float
                THEN Raise("TypeError", "float_as_integer",
                           <<"'float' object cannot be interpreted as an integer">>)
                ELSE IF ~cpu_shards_in_range(cpus, adjusted.value, ranks_per_node, procs)
                THEN Raise("IndexError", "index_out_of_range",
                           <<"list index out of range">>)
                ELSE StageSpec(adjusted.value, FALSE,
                               cpu_shards(cpus, adjusted.value, ranks_per_node, procs),
                               FALSE)

(***************************************************************************)
(* stages/_linux/gpu.py: GPU.compute_spec                                  *)
(***************************************************************************)
RECURSIVE min_total(_)
min_total(gpus) ==
    IF Len(gpus) = 1 THEN gpus[1].total
    ELSE Min(gpus[1].total, min_total(Tail(gpus)))

KiB_PER_MB == 1024

GPU_degree(cfg, sys) == Len(sys.gpus) \div (cfg.gpus * cfg.ranks_per_node)

\* the quotient rounded up instead of down
GPU_oversub_factor_rounded_up(cfg, sys) ==
    (min_total(sys.gpus) * 10 + KiB_PER_MB * cfg.fbmem * cfg.bloat_factor - 1)
        \div (KiB_PER_MB * cfg.fbmem * cfg.bloat_factor)

\* int((min(gpu.total) / (1 << 20)) // (fbmem * bloat_factor))
GPU_oversub_factor(cfg, sys) ==
    (min_total(sys.gpus) * 10) \div (KiB_PER_MB * cfg.fbmem * cfg.bloat_factor)

\* system.memory // (SMALL_SYSMEM * bloat_factor), never below one
GPU_mem_workers_at_least_one(cfg, sys) ==
    IF (sys.memory * 10) \div (SMALL_SYSMEM * cfg.bloat_factor) = 0 THEN 1
    ELSE (sys.memory * 10) \div (SMALL_SYSMEM * cfg.bloat_factor)

\* system.memory // (SMALL_SYSMEM * bloat_factor), a float
GPU_mem_workers(cfg, sys) ==
    (sys.memory * 10) \div (SMALL_SYSMEM * cfg.bloat_factor)

GPU_base_shards_single_rank(cfg, degree) ==
    [i \in 1..degree |->
        Shard(<<range((i - 1) * cfg.ranks_per_node * cfg.gpus,
                      ((i - 1) * cfg.ranks_per_node + 1) * cfg.gpus)>>)]

GPU_base_shards(cfg, degree) ==
    [i \in 1..degree |->
        Shard([j \in 1..cfg.ranks_per_node |->
            range(((j - 1) + (i - 1) * cfg.ranks_per_node) * cfg.gpus,
                  ((j - 1) + (i - 1) * cfg.ranks_per_node + 1) * cfg.gpus)])]

GPU_shard_factor_always_oversub(ranks_per_node, workers, oversub_factor) ==
    oversub_factor

GPU_shard_factor_always_workers(ranks_per_node, workers, oversub_factor) ==
    workers

GPU_shard_factor(ranks_per_node, workers, oversub_factor) ==
    IF ranks_per_node = 1 THEN workers ELSE oversub_factor

GPU_compute_spec(cfg, sys) ==
    LET N == Len(sys.gpus)
        ranks_per_node == cfg.ranks_per_node
    IN  IF cfg.gpus * ranks_per_node = 0
        THEN Raise("ZeroDivisionError", "division_by_zero",
                   <<"integer division or modulo by zero">>)
        ELSE IF N = 0
        THEN Raise("ValueError", "min_of_empty", <<"min() arg is an empty sequence">>)
        ELSE IF cfg.fbmem * cfg.bloat_factor = 0
        THEN Raise("ZeroDivisionError", "division_by_zero", <<"float floor division by zero">>)
        ELSE
        LET degree == GPU_degree(cfg, sys)
            fbsize == min_total(sys.gpus) \div KiB_PER_MB
            oversub_factor == GPU_oversub_factor(cfg, sys)
            gpu_workers == degree * oversub_factor
            mem_workers == GPU_mem_workers(cfg, sys)
            workers == Min(gpu_workers, mem_workers)
            is_float == mem_workers < gpu_workers
            detail == Some(<<"fbsize=", ToString(fbsize),
                             " oversub_factor=", ToString(oversub_factor),
                             " gpu_workers=", ToString(gpu_workers),
                             " mem_workers=", ToString(mem_workers)>>)
            adjusted == adjust_workers(workers, cfg.workers, detail)
        IN  IF ~adjusted.ok THEN Reraise(adjusted)
            ELSE
            LET shards == GPU_base_shards(cfg, degree)
                float_workers == IsNone(cfg.workers) /\ is_float
                shard_factor == GPU_shard_factor(ranks_per_node, adjusted.value,
                                                 oversub_factor)
            IN  IF ranks_per_node = 1 /\ float_workers
                THEN Raise("TypeError", "float_as_integer",
                           <<"can't multiply sequence by non-int of type 'float'">>)
                ELSE StageSpec(adjusted.value, float_workers,
                               repeat(shards, shard_factor), FALSE)

(***************************************************************************)
(* stages/_osx/omp.py: OMP.compute_spec.  Its Config has no multi-node     *)
(* section and no pinning mode; it reads omps, ompthreads, utility and the *)
(* requested workers only.                                                 *)
(***************************************************************************)
OSX_OMP_procs_threads_ignored(cfg) == cfg.omps + cfg.utility

OSX_OMP_procs(cfg) == cfg.omps * cfg.ompthreads + cfg.utility

OSX_OMP_compute_spec(cfg, sys) ==
    LET procs == OSX_OMP_procs(cfg)
    IN  IF procs = 0
        THEN Raise("ZeroDivisionError", "division_by_zero",
                   <<"integer division or modulo by zero">>)
        ELSE
        LET adjusted == adjust_workers(Len(sys.cpus) \div procs, cfg.workers, None)
        IN  IF ~adjusted.ok THEN Reraise(adjusted)
            ELSE StageSpec(adjusted.value, FALSE,
                           [i \in 1..adjusted.value |-> Shard(<<<<i - 1>>>>)],
                           FALSE)

(***************************************************************************)
(* The CPU planner (stages/_linux/cpu.py), after section 4.2 of the        *)
(* specification and the expectations of test_cpu.py.                      *)
(***************************************************************************)
CPU_procs(cfg) == cfg.cpus + cfg.utility + int(cfg.cpu_pin = "strict")

CPU_compute_spec_strict_oversubscribes(cfg, sys) ==
    LET cpus == sys.cpus
        ranks_per_node == cfg.ranks_per_node
        procs == CPU_procs(cfg)
    IN  IF procs * ranks_per_node = 0
        THEN Raise("ZeroDivisionError", "division_by_zero",
                   <<"integer division or modulo by zero">>)
        ELSE
        LET workers == Len(cpus) \div (procs * ranks_per_node)
        IN  IF workers = 0
            THEN StageSpec(1, FALSE, <<Shard(<<all_core_ids(cpus)>>)>>, TRUE)
            ELSE
            LET adjusted == adjust_workers(workers, cfg.workers, None)
            IN  IF ~adjusted.ok THEN Reraise(adjusted)
                ELSE StageSpec(adjusted.value, FALSE,
                               cpu_shards(cpus, adjusted.value, ranks_per_node, procs),
                               FALSE)

CPU_compute_spec(cfg, sys) ==
    LET cpus == sys.cpus
        ranks_per_node == cfg.ranks_per_node
        procs == CPU_procs(cfg)
    IN  IF procs * ranks_per_node = 0
        THEN Raise("ZeroDivisionError", "division_by_zero",
                   <<"integer division or modulo by zero">>)
        ELSE
        LET workers == Len(cpus) \div (procs * ranks_per_node)
        IN  IF workers = 0 /\ cfg.cpu_pin = "strict"
            THEN Raise("RuntimeError", "not_enough_cores", NOT_ENOUGH_MSG)
            ELSE IF workers = 0
            THEN StageSpec(1, FALSE, <<Shard(<<all_core_ids(cpus)>>)>>, TRUE)
            ELSE
            LET adjusted == adjust_workers(workers, cfg.workers, None)
            IN  IF ~adjusted.ok THEN Reraise(adjusted)
                ELSE StageSpec(adjusted.value, FALSE,
                               cpu_shards(cpus, adjusted.value, ranks_per_node, procs),
                               FALSE)

(***************************************************************************)
(* The env methods.  UNPIN_ENV is stages/util.py; MANUAL_CONFIG_ENV is     *)
(* imported from the same module by omp.py and gpu.py.                     *)
(***************************************************************************)
UNPIN_ENV == "REALM_SYNTHETIC_CORE_MAP" :> ""

MANUAL_CONFIG_ENV == "LEGATE_AUTO_CONFIG" :> "0"

\* d.update(other): the entries of other win
update(d, other) == other @@ d

OMP_env_always_unpinned(cfg, sys) == update(MANUAL_CONFIG_ENV, UNPIN_ENV)

OMP_env(cfg, sys) ==
    IF cfg.cpu_pin # "strict"
    THEN update(MANUAL_CONFIG_ENV, UNPIN_ENV)
    ELSE MANUAL_CONFIG_ENV

GPU_env(cfg, sys) == MANUAL_CONFIG_ENV

OSX_OMP_env(cfg, sys) == UNPIN_ENV

\* the empty dict
EMPTY_ENV == [k \in {} |-> ""]

\* test_cpu.py: UNPIN_ENV by default and with cpu_pin none, {} with strict
CPU_env(cfg, sys) ==
    IF cfg.cpu_pin # "strict" THEN UNPIN_ENV ELSE EMPTY_ENV

env(k, cfg, sys) ==
    CASE k = "cpus" -> CPU_env(cfg, sys)
      [] k = "cuda" -> GPU_env(cfg, sys)
      [] k = "openmp" -> OMP_env(cfg, sys)
      [] k = "openmp_osx" -> OSX_OMP_env(cfg, sys)

(***************************************************************************)
(* stages/util.py Shard.__str__, and the shard_args method of the CPU      *)
(* planner after section 4.2 of the specification and test_cpu.py.         *)
(***************************************************************************)
str(n) == <<ToString(n)>>

\* sep.join(parts)
RECURSIVE join(_, _)
join(sep, parts) ==
    IF parts = <<>> THEN <<>>
    ELSE IF Len(parts) = 1 THEN Head(parts)
    ELSE Head(parts) \o <<sep>> \o join(sep, Tail(parts))

Shard_str_ranks_joined_by_comma(shard) ==
    join(",", [n \in 1..Len(shard.ranks) |->
                  join(",", [m \in 1..Len(shard.ranks[n]) |-> str(shard.ranks[n][m])])])

Shard_str(shard) ==
    join("/", [n \in 1..Len(shard.ranks) |->
                  join(",", [m \in 1..Len(shard.ranks[n]) |-> str(shard.ranks[n][m])])])

handle_cpu_pin_args(cfg, shard) ==
    IF cfg.cpu_pin # "none" THEN <<<<"--cpu-bind">>, Shard_str(shard)>> ELSE <<>>

handle_multi_node_args(cfg) ==
    IF cfg.ranks_per_node > 1
    THEN <<<<"--launcher">>, <<cfg.launcher>>,
           <<"--ranks-per-node">>, str(cfg.ranks_per_node)>>
    ELSE <<>>

CPU_shard_args(shard, cfg) ==
    <<<<"--cpus">>, str(cfg.cpus), <<"--sysmem">>, str(cfg.sysmem)>>
    \o handle_cpu_pin_args(cfg, shard)
    \o handle_multi_node_args(cfg)

(***************************************************************************)
(* stages/_linux/gpu.py: GPU.shard_args.  self._gpus is the inventory the  *)
(* stage was constructed with.                                             *)
(***************************************************************************)
GPU_shard_gpu_ids_positions_kept(gpus, shard) == shard

\* Shard(ranks=[tuple(self._gpus[r].id for r in rank) for rank in shard.ranks])
GPU_shard_gpu_ids(gpus, shard) ==
    Shard([n \in 1..Len(shard.ranks) |->
              [m \in 1..Len(shard.ranks[n]) |-> gpus[shard.ranks[n][m] + 1].id]])

\* sum(len(r) for r in ranks)
RECURSIVE sum_len(_)
sum_len(ranks) == IF ranks = <<>> THEN 0 ELSE Len(Head(ranks)) + sum_len(Tail(ranks))

GPU_shard_args(gpus, shard, cfg) ==
    <<<<"--fbmem">>, str(cfg.fbmem),
      <<"--gpus">>, str(sum_len(shard.ranks) \div Len(shard.ranks)),
      <<"--gpu-bind">>, Shard_str(GPU_shard_gpu_ids(gpus, shard)),
      <<"--sysmem">>, str(SMALL_SYSMEM),
      <<"--cpus">>, <<"1">>,
      <<"--utility">>, str(cfg.utility)>>
    \o handle_multi_node_args(cfg)

compute_spec(k, cfg, sys) ==
    CASE k = "cpus" -> CPU_compute_spec(cfg, sys)
      [] k = "cuda" -> GPU_compute_spec(cfg, sys)
      [] k = "openmp" -> OMP_compute_spec(cfg, sys)
      [] k = "openmp_osx" -> OSX_OMP_compute_spec(cfg, sys)

(***************************************************************************)
(* Inputs of a planning call.  The inventory comes from the probe          *)
(* (TestSystem): at least one CPU group, the groups having pairwise        *)
(* disjoint core ids, either one                                           *)
(* core per group or two hyperthreads k and k + n per group; GPUs with an  *)
(* id and a memory size whose smallest is the last one.  The Config comes  *)
(* from the command line; fields a planner never reads keep their default. *)
(***************************************************************************)
Requests(hi) == {None} \cup {Some(n) : n \in (-1)..hi}

PinModes == {"none", "partial", "strict"}
PerTest == {0, 1, 2}
Threads == {1, 2}
Utilities == {0, 1}
BloatFactors == {10, 15}
SystemMemories == {200, 1000, 64000}
NumaMemories == {0, 300}
FbMemories == {0, 2048, 4096}
GpuTotals == {1000 * KiB_PER_MB, 6144 * KiB_PER_MB, 16000 * KiB_PER_MB}
BIG_GPU == 32000 * KiB_PER_MB

CpuLayouts == {"flat", "smt"}
Launchers == {"none", "srun"}

Cpus(n, layout) ==
    [k \in 1..n |->
        [ids |-> IF layout = "smt" THEN <<k - 1, k - 1 + n>> ELSE <<k - 1>>]]

Gpus(n, smallest) ==
    [k \in 1..n |-> [id |-> 2 * (k - 1) + 1,
                     total |-> IF k = n THEN smallest ELSE BIG_GPU]]

DefaultConfig ==
    [cpus |-> 2, gpus |-> 1, omps |-> 1, ompthreads |-> 4, utility |-> 1,
     sysmem |-> 4000, numamem |-> 4000, fbmem |-> 4096,
     ranks_per_node |-> 1, launcher |-> "none", cpu_pin |-> "partial",
     bloat_factor |-> 15, workers |-> None, verbose |-> FALSE]

TestSystem(cpus, gpus, memory) == [cpus |-> cpus, gpus |-> gpus, memory |-> memory]

\* No method of the stage has been called.
NoCall == [method |-> "none", shard |-> Shard(<<>>), out |-> <<>>]

\* No second stage has been constructed.
NoReplan == [made |-> FALSE, config |-> DefaultConfig, out |-> Raise("", "", <<>>)]

Init ==
    /\ pc = "Unplanned"
    /\ kind = "none"
    /\ config = DefaultConfig
    /\ system = TestSystem(<<>>, <<>>, 0)
    /\ result = <<>>
    /\ warnings = 0
    /\ r_pc = "idle"
    /\ r_args = <<>>
    /\ r_out = <<>>
    /\ call = NoCall
    /\ replan = NoReplan

\* TestStage construction: __init__ hands (config, system) to _init, which
\* runs compute_spec.
Construct(k, cfg, sys) ==
    /\ pc' = "Planning"
    /\ kind' = k
    /\ config' = cfg
    /\ system' = sys
    /\ UNCHANGED <<result, warnings, r_pc, r_args, r_out, call, replan>>

ConstructCPU ==
    /\ pc = "Unplanned"
    /\ \E c \in PerTest, u \in Utilities, rpn \in 1..MaxRanks, pin \in PinModes,
          w \in Requests(MaxRequested), n \in 1..MaxCpus, layout \in CpuLayouts,
          l \in Launchers :
           Construct("cpus",
                     [DefaultConfig EXCEPT !.cpus = c, !.utility = u,
                                           !.ranks_per_node = rpn, !.launcher = l,
                                           !.cpu_pin = pin, !.workers = w],
                     TestSystem(Cpus(n, layout), <<>>, 64000))

ConstructOMP ==
    /\ pc = "Unplanned"
    /\ \E o \in PerTest, t \in Threads, u \in Utilities, rpn \in 1..MaxRanks,
          w \in Requests(MaxRequested), n \in 1..MaxCpus, numa \in NumaMemories,
          b \in BloatFactors, m \in SystemMemories, pin \in PinModes :
           Construct("openmp",
                     [DefaultConfig EXCEPT !.omps = o, !.ompthreads = t, !.utility = u,
                                           !.ranks_per_node = rpn, !.cpu_pin = pin,
                                           !.workers = w, !.numamem = numa,
                                           !.bloat_factor = b],
                     TestSystem(Cpus(n, "smt"), <<>>, m))

ConstructGPU ==
    /\ pc = "Unplanned"
    /\ \E g \in PerTest, rpn \in 1..MaxRanks, w \in Requests(MaxRequested),
          n \in 0..MaxGpus, fb \in FbMemories, b \in BloatFactors,
          total \in GpuTotals, m \in SystemMemories, l \in Launchers :
           Construct("cuda",
                     [DefaultConfig EXCEPT !.gpus = g, !.ranks_per_node = rpn,
                                           !.launcher = l,
                                           !.workers = w, !.fbmem = fb,
                                           !.bloat_factor = b],
                     TestSystem(<<>>, Gpus(n, total), m))

ConstructOSX ==
    /\ pc = "Unplanned"
    /\ \E o \in PerTest, t \in Threads, u \in Utilities,
          w \in Requests(MaxRequested), n \in 1..MaxCpus, pin \in PinModes :
           Construct("openmp_osx",
                     [DefaultConfig EXCEPT !.omps = o, !.ompthreads = t, !.utility = u,
                                           !.cpu_pin = pin, !.workers = w],
                     TestSystem(Cpus(n, "flat"), <<>>, 64000))

Finish_warning_dropped(r) ==
    /\ result' = r
    /\ warnings' = warnings
    /\ pc' = IF r.ok THEN "Planned" ELSE "Failed"
    /\ UNCHANGED <<kind, config, system, r_pc, r_args, r_out, call, replan>>

\* compute_spec returns a StageSpec or raises; warnings.warn is its only
\* other effect.
Finish(r) ==
    /\ result' = r
    /\ warnings' = warnings + int(r.warned)
    /\ pc' = IF r.ok THEN "Planned" ELSE "Failed"
    /\ UNCHANGED <<kind, config, system, r_pc, r_args, r_out, call, replan>>

ComputeSpecCPU ==
    /\ pc = "Planning" /\ kind = "cpus"
    /\ Finish(CPU_compute_spec(config, system))

ComputeSpecOMP ==
    /\ pc = "Planning" /\ kind = "openmp"
    /\ Finish(OMP_compute_spec(config, system))

ComputeSpecGPU ==
    /\ pc = "Planning" /\ kind = "cuda"
    /\ Finish(GPU_compute_spec(config, system))

ComputeSpecOSX ==
    /\ pc = "Planning" /\ kind = "openmp_osx"
    /\ Finish(OSX_OMP_compute_spec(config, system))

\* The runner calls env and shard_args on a stage whose construction
\* succeeded, any number of times; both are pure.
Env ==
    /\ call' = [method |-> "env", shard |-> Shard(<<>>),
                out |-> env(kind, config, system)]
    /\ UNCHANGED <<pc, kind, config, system, result, warnings, r_pc, r_args, r_out, replan>>

EnvCPU == pc = "Planned" /\ kind = "cpus" /\ Env

EnvOMP == pc = "Planned" /\ kind = "openmp" /\ Env

EnvGPU == pc = "Planned" /\ kind = "cuda" /\ Env

EnvOSX == pc = "Planned" /\ kind = "openmp_osx" /\ Env

ShardArgsCPU ==
    /\ pc = "Planned" /\ kind = "cpus"
    /\ \E n \in 1..Len(result.shards) :
           call' = [method |-> "shard_args", shard |-> result.shards[n],
                    out |-> CPU_shard_args(result.shards[n], config)]
    /\ UNCHANGED <<pc, kind, config, system, result, warnings, r_pc, r_args, r_out, replan>>

ShardArgsGPU ==
    /\ pc = "Planned" /\ kind = "cuda"
    /\ \E n \in 1..Len(result.shards) :
           call' = [method |-> "shard_args", shard |-> result.shards[n],
                    out |-> GPU_shard_args(system.gpus, result.shards[n], config)]
    /\ UNCHANGED <<pc, kind, config, system, result, warnings, r_pc, r_args, r_out, replan>>

Next ==
    \/ ConstructOMP
    \/ ConstructGPU
    \/ ConstructOSX
    \/ ConstructCPU
    \/ ComputeSpecOMP
    \/ ComputeSpecGPU
    \/ ComputeSpecOSX
    \/ ComputeSpecCPU
    \/ EnvOMP
    \/ EnvGPU
    \/ EnvOSX
    \/ EnvCPU
    \/ ShardArgsCPU
    \/ ShardArgsGPU

Spec == Init /\ [][Next]_vars

(***************************************************************************)
(* A second construction of the same stage class on the same inventory,    *)
(* after the first has finished: with the same Config, with a Config that  *)
(* differs in verbose only, or with the same Config without its requested  *)
(* worker count.  The runner never mutates Config or inventory, so the     *)
(* second call sees what the first saw.                                    *)
(***************************************************************************)
Variants(cfg) ==
    {cfg, [cfg EXCEPT !.verbose = ~cfg.verbose], [cfg EXCEPT !.workers = None]}

Replan ==
    /\ pc \in {"Planned", "Failed"}
    /\ ~replan.made
    /\ \E cfg \in Variants(config) :
           LET r == compute_spec(kind, cfg, system)
           IN  /\ replan' = [made |-> TRUE, config |-> cfg, out |-> r]
               /\ warnings' = warnings + int(r.warned)
    /\ UNCHANGED <<pc, kind, config, system, result, r_pc, r_args, r_out, call>>

NextTwice ==
    \/ ConstructOMP
    \/ ConstructGPU
    \/ ConstructOSX
    \/ ConstructCPU
    \/ ComputeSpecOMP
    \/ ComputeSpecGPU
    \/ ComputeSpecOSX
    \/ ComputeSpecCPU
    \/ Replan

SpecTwice == Init /\ [][NextTwice]_vars

(***************************************************************************)
(* Harness for the resolver: the arguments are drawn in the initial state  *)
(* and Resolve applies adjust_workers to them.                             *)
(***************************************************************************)
Details ==
    {None, Some(<<>>), Some(<<"omp_workers=0">>), Some(<<"omp_workers=0", "mem_workers=0">>)}

Idle ==
    /\ pc = "Idle"
    /\ kind = "none"
    /\ config = <<>>
    /\ system = <<>>
    /\ result = <<>>
    /\ warnings = 0
    /\ call = NoCall
    /\ replan = NoReplan

InitResolve ==
    /\ Idle
    /\ r_pc = "call"
    /\ r_args \in [workers : 0..MaxComputed,
                    requested_workers : Requests(MaxRequested),
                    detail : Details]
    /\ r_out = <<>>

Resolve ==
    /\ r_pc = "call"
    /\ r_out' = adjust_workers(r_args.workers, r_args.requested_workers, r_args.detail)
    /\ r_pc' = "done"
    /\ UNCHANGED <<pc, kind, config, system, result, warnings, r_args, call, replan>>

NextResolve == Resolve

SpecResolve == InitResolve /\ [][NextResolve]_vars

Contains(msg, d) ==
    \E i \in 1..(Len(msg) - Len(d) + 1) : SubSeq(msg, i, i + Len(d) - 1) = d

\* C1: whenever the resolver returns a value for computed >= 0, the value is the
\* request if one was given and the computed count otherwise, and it lies in
\* 1..computed.
C1_ResolveValue ==
    (r_pc = "done" /\ r_out.ok) =>
        /\ r_out.value = (IF IsNone(r_args.requested_workers)
                          THEN r_args.workers
                          ELSE Val(r_args.requested_workers))
        /\ 1 <= r_out.value
        /\ r_out.value <= r_args.workers

C1_Witness ==
    /\ r_pc = "done"
    /\ r_out.ok
    /\ ~IsNone(r_args.requested_workers)
    /\ r_args.workers = 5
    /\ r_out.value = 3

\* C2: for every computed count the resolver raises an invalid-configuration
\* error, and returns nothing, when the request is negative, zero or greater
\* than the computed count.
C2_InvalidRequestRejected ==
    (/\ r_pc = "done"
     /\ ~IsNone(r_args.requested_workers)
     /\ \/ Val(r_args.requested_workers) < 0
        \/ Val(r_args.requested_workers) = 0
        \/ Val(r_args.requested_workers) > r_args.workers)
    => InvalidConfiguration(r_out)

C2_Witness ==
    /\ r_pc = "done"
    /\ r_args.workers = MaxComputed
    /\ r_args.requested_workers = Some(0)
    /\ InvalidConfiguration(r_out)

\* C3: the resolver raises the resource-exhausted error exactly when no request
\* is given and the computed count is 0, and the message of that error contains
\* the detail string when one is supplied.
C3_ZeroWorkers ==
    r_pc = "done" =>
        /\ ResourceExhausted(r_out) <=>
               (IsNone(r_args.requested_workers) /\ r_args.workers = 0)
        /\ (ResourceExhausted(r_out) /\ ~IsNone(r_args.detail)) =>
               Contains(r_out.msg, Val(r_args.detail))

C3_Witness ==
    /\ r_pc = "done"
    /\ ResourceExhausted(r_out)
    /\ r_args.detail = Some(<<"omp_workers=0", "mem_workers=0">>)
    /\ Len(r_out.msg) = 5

(***************************************************************************)
(* Properties of the planners.                                             *)
(***************************************************************************)
Planned == pc = "Planned"
Finished == pc \in {"Planned", "Failed"}
Relaxed == config.cpu_pin # "strict"
Requested == ~IsNone(config.workers)

Elems(s) == {s[i] : i \in 1..Len(s)}
Ascending(s) == \A i \in 1..(Len(s) - 1) : s[i] < s[i + 1]
AllCores == UNION {Elems(system.cpus[k].ids) : k \in 1..Len(system.cpus)}

\* The single best-effort worker of the oversubscription fallback: one shard
\* whose only RankShard is every core id of the inventory in ascending order.
SingleOversubscribedWorker ==
    /\ result.workers = 1
    /\ Len(result.shards) = 1
    /\ Len(result.shards[1].ranks) = 1
    /\ Elems(result.shards[1].ranks[1]) = AllCores
    /\ Ascending(result.shards[1].ranks[1])

\* C4 as stated: with ranks_per_node == 1 every successful plan has
\* len(shards) == workers.
C4_ShardsEqualWorkers ==
    (Planned /\ config.ranks_per_node = 1) => Len(result.shards) = result.workers

\* C4 amended: with ranks_per_node == 1 the CPU and OMP planners produce
\* len(shards) == workers, and the GPU planner produces
\* len(shards) == degree * workers.
C4_ShardsPerWorkers ==
    (Planned /\ config.ranks_per_node = 1) =>
        IF kind = "cuda"
        THEN Len(result.shards) = (Len(system.gpus) \div config.gpus) * result.workers
        ELSE Len(result.shards) = result.workers

C4_Witness ==
    /\ Planned
    /\ kind = "cuda"
    /\ config.ranks_per_node = 1
    /\ Len(system.gpus) \div config.gpus = 2
    /\ result.workers = 3
    /\ Len(result.shards) = 6

C6_RanksDisjoint ==
    (Planned /\ ~result.warned) =>
        \A n \in 1..Len(result.shards) :
            \A a, b \in 1..Len(result.shards[n].ranks) :
                a # b =>
                    Elems(result.shards[n].ranks[a])
                        \cap Elems(result.shards[n].ranks[b]) = {}

C6_Witness ==
    /\ Planned
    /\ ~result.warned
    /\ kind = "openmp"
    /\ config.ranks_per_node = 2
    /\ Len(result.shards) = 2
    /\ Len(result.shards[2].ranks[2]) = 2

\* C7 as stated: every shard of every successful plan has exactly
\* ranks_per_node RankShards, on the normal path and on the fallback.
C7_OneRankShardPerRank ==
    Planned =>
        \A n \in 1..Len(result.shards) :
            Len(result.shards[n].ranks) = config.ranks_per_node

\* C7 amended: every shard of a plan made on the normal path has exactly
\* ranks_per_node RankShards; the single shard of the oversubscription
\* fallback has exactly one RankShard whatever ranks_per_node is.
C7_RankShardsPerShard ==
    Planned =>
        \A n \in 1..Len(result.shards) :
            Len(result.shards[n].ranks) =
                (IF result.warned THEN 1 ELSE config.ranks_per_node)

C7_Witness ==
    /\ Planned
    /\ kind = "cuda"
    /\ config.ranks_per_node = 2
    /\ Len(result.shards) >= 2
    /\ Len(result.shards[2].ranks) = 2

\* The capacity a request is measured against, where the code computes one.
CapacityDefined ==
    CASE kind = "cpus" -> CPU_procs(config) * config.ranks_per_node # 0
      [] kind = "openmp" -> OMP_procs(config) * config.ranks_per_node # 0
      [] kind = "openmp_osx" -> OSX_OMP_procs(config) # 0
      [] kind = "cuda" -> /\ config.gpus * config.ranks_per_node # 0
                          /\ Len(system.gpus) # 0
                          /\ config.fbmem * config.bloat_factor # 0
      [] OTHER -> FALSE

Capacity ==
    CASE kind = "cpus" ->
            Len(system.cpus) \div (CPU_procs(config) * config.ranks_per_node)
      [] kind = "openmp" ->
            Min(OMP_omp_workers(config, system), OMP_mem_workers(config, system))
      [] kind = "openmp_osx" -> Len(system.cpus) \div OSX_OMP_procs(config)
      [] kind = "cuda" ->
            Min(GPU_degree(config, system) * GPU_oversub_factor(config, system),
                GPU_mem_workers(config, system))

\* C8: in every planner, a request that is negative, zero or above the
\* computed capacity always makes planning fail with an invalid-configuration
\* error; no StageSpec is produced.
C8_InvalidRequestSurfaced ==
    (/\ Finished
     /\ CapacityDefined
     /\ Requested
     /\ \/ Val(config.workers) <= 0
        \/ Val(config.workers) > Capacity)
    => (pc = "Failed" /\ InvalidConfiguration(result))

\* C9 as stated: for the CPU and OMP planners with cpu_pin != strict, a
\* computed worker count of zero, whatever its cause, gives a successful plan
\* with a warning and the single oversubscribed worker.
C9_ZeroNeverAnError ==
    (/\ Finished
     /\ kind \in {"cpus", "openmp"}
     /\ Relaxed
     /\ CapacityDefined
     /\ Capacity = 0)
    => (Planned /\ result.warned /\ SingleOversubscribedWorker)

\* C9 amended: with cpu_pin != strict, a core-based worker count of zero gives
\* a successful plan with a warning and the single oversubscribed worker,
\* provided in the OMP planner that mem_workers > 0; when host memory allows
\* no worker (mem_workers == 0) the OMP planner fails.
C9_ZeroCoresOversubscribed ==
    (/\ Finished
     /\ kind \in {"cpus", "openmp"}
     /\ Relaxed
     /\ CapacityDefined)
    => /\ (/\ Len(system.cpus) \div
                 ((IF kind = "cpus"
                   THEN config.cpus + config.utility
                   ELSE config.omps * config.ompthreads + config.utility)
                  * config.ranks_per_node) = 0
           /\ (kind = "openmp" =>
                 (system.memory * 10) \div
                     ((SMALL_SYSMEM + config.omps * config.numamem)
                      * config.bloat_factor) > 0))
          => (Planned /\ result.warned /\ warnings = 1 /\ SingleOversubscribedWorker)
       /\ (/\ kind = "openmp"
           /\ (system.memory * 10) \div
                  ((SMALL_SYSMEM + config.omps * config.numamem)
                   * config.bloat_factor) = 0)
          => pc = "Failed"

C9_Witness ==
    /\ Planned
    /\ kind = "openmp"
    /\ Relaxed
    /\ config.ranks_per_node = 2
    /\ Len(system.cpus) = 3
    /\ result.warned
    /\ warnings = 1
    /\ result.shards = <<Shard(<<<<0, 1, 2, 3, 4, 5>>>>)>>

\* C10: on the normal path of the CPU planner (workers_raw > 0) the plan has
\* workers == resolve(workers_raw, requested) and that many shards, and rank j
\* of shard i holds, in ascending order, the core ids of the CPU groups at
\* positions [(j + i*ranks_per_node)*procs, (j + i*ranks_per_node + 1)*procs).
C10_CpuNormalPath ==
    LET procs == config.cpus + config.utility
                 + (IF config.cpu_pin = "strict" THEN 1 ELSE 0)
        rpn == config.ranks_per_node
    IN  (/\ Planned
         /\ kind = "cpus"
         /\ Len(system.cpus) \div (procs * rpn) > 0)
        => /\ result.workers = (IF Requested THEN Val(config.workers)
                                ELSE Len(system.cpus) \div (procs * rpn))
           /\ Len(result.shards) = result.workers
           /\ \A i \in 0..(result.workers - 1) :
                 /\ Len(result.shards[i + 1].ranks) = rpn
                 /\ \A j \in 0..(rpn - 1) :
                       LET rank == result.shards[i + 1].ranks[j + 1]
                       IN  /\ Ascending(rank)
                           /\ Elems(rank) =
                                 UNION {Elems(system.cpus[k + 1].ids) :
                                          k \in ((j + i * rpn) * procs)
                                                ..((j + i * rpn + 1) * procs - 1)}

C10_Witness ==
    /\ Planned
    /\ kind = "cpus"
    /\ config.ranks_per_node = 2
    /\ config.cpus = 1 /\ config.utility = 1 /\ config.cpu_pin = "none"
    /\ Len(system.cpus) = 6
    /\ system.cpus[1].ids = <<0, 6>>
    /\ Requested
    /\ result.workers = 1
    /\ result.shards = <<Shard(<<<<0, 1, 6, 7>>, <<2, 3, 8, 9>>>>)>>

\* C11: in the CPU planner, whenever
\* floor(len(cpus) / (procs_per_rank * ranks_per_node)) == 0 and cpu_pin is
\* strict, planning fails with a resource-exhausted error whose message
\* mentions "not enough", for every ranks_per_node and every requested worker
\* count, and no StageSpec is produced.
C11_CpuStrictZeroFails ==
    (/\ Finished
     /\ kind = "cpus"
     /\ config.cpu_pin = "strict"
     /\ Len(system.cpus)
            \div ((config.cpus + config.utility + 1) * config.ranks_per_node) = 0)
    => /\ pc = "Failed"
       /\ ~result.ok
       /\ result.shards = <<>>
       /\ ResourceExhausted(result)
       /\ result.exc = "RuntimeError"
       /\ Contains(result.msg, <<"not enough">>)

C11_Witness ==
    /\ pc = "Failed"
    /\ kind = "cpus"
    /\ config.cpu_pin = "strict"
    /\ config.ranks_per_node = 2
    /\ config.cpus = 1 /\ config.utility = 1
    /\ Len(system.cpus) = 5
    /\ config.workers = Some(1)
    /\ result.why = "not_enough_cores"

\* C12: in the CPU planner, whenever
\* floor(len(cpus) / (procs_per_rank * ranks_per_node)) == 0 and cpu_pin is not
\* strict, planning succeeds with exactly 1 worker and exactly one shard whose
\* single RankShard is every core id of the inventory in ascending order, for
\* every ranks_per_node, and one warning is emitted.
C12_CpuRelaxedZeroOversubscribes ==
    (/\ Finished
     /\ kind = "cpus"
     /\ config.cpu_pin # "strict"
     /\ (config.cpus + config.utility) * config.ranks_per_node # 0
     /\ Len(system.cpus)
            \div ((config.cpus + config.utility) * config.ranks_per_node) = 0)
    => /\ Planned
       /\ result.ok
       /\ result.warned
       /\ warnings = 1
       /\ SingleOversubscribedWorker

C12_Witness ==
    /\ Planned
    /\ kind = "cpus"
    /\ config.cpu_pin = "none"
    /\ config.ranks_per_node = 2
    /\ config.cpus = 2 /\ config.utility = 1
    /\ Len(system.cpus) = 4
    /\ system.cpus[1].ids = <<0, 4>>
    /\ warnings = 1
    /\ result.workers = 1
    /\ result.shards = <<Shard(<<<<0, 1, 2, 3, 4, 5, 6, 7>>>>)>>

\* C13: in the GPU planner, for every inventory of N >= 1 GPUs and every
\* config, with degree = floor(N / (gpus * ranks_per_node)),
\* oversub_factor = floor(min GPU memory in MB / (fbmem * bloat_factor)),
\* gpu_workers = degree * oversub_factor and
\* mem_workers = floor(system memory / (SMALL_SYSMEM * bloat_factor)), the
\* planned worker count is resolve(min(gpu_workers, mem_workers), requested):
\* the plan has that many workers when the resolver returns, and planning
\* fails when the resolver fails.
C13_GpuPlannedWorkers ==
    (Finished /\ kind = "cuda" /\ CapacityDefined) =>
        LET degree == Len(system.gpus) \div (config.gpus * config.ranks_per_node)
            oversub_factor == (min_total(system.gpus) * 10)
                                  \div (KiB_PER_MB * config.fbmem * config.bloat_factor)
            gpu_workers == degree * oversub_factor
            mem_workers == (system.memory * 10) \div (SMALL_SYSMEM * config.bloat_factor)
            computed == IF mem_workers < gpu_workers THEN mem_workers ELSE gpu_workers
            wanted == IF Requested THEN Val(config.workers) ELSE computed
        IN  IF 1 <= wanted /\ wanted <= computed
            THEN Planned /\ result.workers = wanted
            ELSE pc = "Failed"

C15_GpuShardLayout ==
    (Planned /\ kind = "cuda") =>
        LET rpn == config.ranks_per_node
            gpus == config.gpus
            degree == Len(system.gpus) \div (gpus * rpn)
            oversub_factor == (min_total(system.gpus) * 10)
                                  \div (KiB_PER_MB * config.fbmem * config.bloat_factor)
            shard_factor == IF rpn = 1 THEN result.workers ELSE oversub_factor
        IN  /\ Len(result.shards) = degree * shard_factor
            /\ \A copy \in 0..(shard_factor - 1) :
                  \A i \in 0..(degree - 1) :
                     LET shard == result.shards[copy * degree + i + 1]
                     IN  /\ Len(shard.ranks) = rpn
                         /\ \A j \in 0..(rpn - 1) :
                               /\ Len(shard.ranks[j + 1]) = gpus
                               /\ \A k \in 1..gpus :
                                     shard.ranks[j + 1][k] = (j + i * rpn) * gpus + k - 1

\* Two base shards of two ranks of one GPU each, repeated three times.
C15_Witness ==
    /\ Planned
    /\ kind = "cuda"
    /\ config.ranks_per_node = 2
    /\ config.gpus = 1
    /\ Len(system.gpus) = 4
    /\ result.shards = <<Shard(<<<<0>>, <<1>>>>), Shard(<<<<2>>, <<3>>>>),
                         Shard(<<<<0>>, <<1>>>>), Shard(<<<<2>>, <<3>>>>),
                         Shard(<<<<0>>, <<1>>>>), Shard(<<<<2>>, <<3>>>>)>>

\* C16: in the OMP planner, with
\* procs_per_rank = omps*ompthreads + utility + (1 if cpu_pin is strict else 0),
\* omp_workers = floor(len(cpus) / (procs_per_rank * ranks_per_node)),
\* mem_per_test = (SMALL_SYSMEM + omps*numamem) * bloat_factor and
\* mem_workers = floor(system memory / mem_per_test), whenever omp_workers > 0
\* the planned worker count is resolve(min(omp_workers, mem_workers), requested):
\* the plan has that many workers when the resolver returns, and planning
\* fails when the resolver fails, in particular when the minimum is 0.
C16_OmpPlannedWorkers ==
    (Finished /\ kind = "openmp" /\ CapacityDefined) =>
        LET procs_per_rank == config.omps * config.ompthreads + config.utility
                              + (IF config.cpu_pin = "strict" THEN 1 ELSE 0)
            omp_workers == Len(system.cpus) \div (procs_per_rank * config.ranks_per_node)
            mem_per_test == (SMALL_SYSMEM + config.omps * config.numamem)
                            * config.bloat_factor
            mem_workers == (system.memory * 10) \div mem_per_test
            computed == IF mem_workers < omp_workers THEN mem_workers ELSE omp_workers
            wanted == IF Requested THEN Val(config.workers) ELSE computed
        IN  omp_workers > 0 =>
                IF 1 <= wanted /\ wanted <= computed
                THEN Planned /\ result.workers = wanted
                ELSE pc = "Failed"

\* C17: in the OMP planner, when omp_workers == 0: with cpu_pin strict,
\* planning fails with a resource-exhausted error regardless of mem_workers
\* and of the requested count; otherwise, with mem_workers > 0, a warning is
\* emitted and the plan is exactly 1 worker with one shard whose single
\* RankShard is every core id in ascending order; otherwise (mem_workers == 0)
\* planning goes on to the resolver and fails.
C17_OmpZeroCores ==
    LET procs_per_rank == config.omps * config.ompthreads + config.utility
                          + (IF config.cpu_pin = "strict" THEN 1 ELSE 0)
        omp_workers == Len(system.cpus) \div (procs_per_rank * config.ranks_per_node)
        mem_workers == (system.memory * 10)
                           \div ((SMALL_SYSMEM + config.omps * config.numamem)
                                 * config.bloat_factor)
    IN  (/\ Finished
         /\ kind = "openmp"
         /\ procs_per_rank * config.ranks_per_node # 0
         /\ omp_workers = 0)
        => IF config.cpu_pin = "strict"
           THEN /\ pc = "Failed"
                /\ ResourceExhausted(result)
                /\ result.why = "not_enough_cores"
                /\ warnings = 0
           ELSE IF mem_workers > 0
           THEN /\ Planned
                /\ result.warned
                /\ warnings = 1
                /\ SingleOversubscribedWorker
           ELSE /\ pc = "Failed"
                /\ warnings = 0
                /\ result.why \in {"negative_request", "zero_request",
                                   "request_exceeds_computed", "zero_workers"}
                /\ ~Requested =>
                      /\ ResourceExhausted(result)
                      /\ Contains(result.msg, <<"omp_workers=", "0", " mem_workers=", "0">>)

\* The strict case with plenty of memory and a request of 1.
C17_Witness ==
    /\ pc = "Failed"
    /\ kind = "openmp"
    /\ config.cpu_pin = "strict"
    /\ config.workers = Some(1)
    /\ system.memory = 64000
    /\ config.omps = 2 /\ config.ompthreads = 2 /\ config.utility = 1
    /\ config.ranks_per_node = 1
    /\ Len(system.cpus) = 5
    /\ result.why = "not_enough_cores"

\* The unpin override: REALM_SYNTHETIC_CORE_MAP set to the empty string.
HasUnpin(e) ==
    /\ "REALM_SYNTHETIC_CORE_MAP" \in DOMAIN e
    /\ e["REALM_SYNTHETIC_CORE_MAP"] = ""

EnvCalled == call.method = "env" /\ kind \in {"cpus", "openmp", "openmp_osx"}

\* C18 as stated: for the CPU planner and for every OMP planner, Linux and
\* OSX, env(config, system) contains the unpin override if and only if
\* cpu_pin != strict.
C18_UnpinIffRelaxed ==
    EnvCalled => (HasUnpin(call.out) <=> config.cpu_pin # "strict")

\* C18 amended: for the CPU planner and the Linux OMP planner, env contains
\* the unpin override if and only if cpu_pin != strict; the env of the OSX OMP
\* planner contains it whatever cpu_pin is.
C18_UnpinByPlanner ==
    EnvCalled =>
        IF kind = "openmp_osx"
        THEN HasUnpin(call.out)
        ELSE HasUnpin(call.out) <=> config.cpu_pin # "strict"

C18_Witness ==
    /\ call.method = "env"
    /\ kind = "openmp_osx"
    /\ config.cpu_pin = "strict"
    /\ HasUnpin(call.out)

\* s.split(sep), on token sequences
RECURSIVE split(_, _)
split(s, sep) ==
    IF s = <<>> THEN <<<<>>>>
    ELSE LET rest == split(Tail(s), sep)
         IN  IF Head(s) = sep THEN <<<<>>>> \o rest
             ELSE <<<<Head(s)>> \o Head(rest)>> \o Tail(rest)

\* v names the ranks: the ranks separated by "/", the ids of a rank by ",".
BindValue(v, ranks) ==
    /\ Len(split(v, "/")) = Len(ranks)
    /\ \A n \in 1..Len(ranks) :
          split(split(v, "/")[n], ",") =
              [m \in 1..Len(ranks[n]) |-> <<ToString(ranks[n][m])>>]

\* C19: the argument list of the CPU planner's shard_args always starts with
\* --cpus and --sysmem and their values, goes on with --cpu-bind and the
\* per-rank comma-separated core ids, ranks joined by "/", if and only if
\* cpu_pin != none, and ends with the launcher selection and --ranks-per-node
\* when ranks_per_node > 1.
C19_CpuShardArgs ==
    (call.method = "shard_args" /\ kind = "cpus") =>
        LET args == call.out
            ranks == call.shard.ranks
            Pos(flag) == {i \in 1..Len(args) : args[i] = <<flag>>}
            pinned == config.cpu_pin # "none"
            fixed == IF pinned THEN 6 ELSE 4
        IN  /\ Pos("--cpus") = {1}
            /\ args[2] = <<ToString(config.cpus)>>
            /\ Pos("--sysmem") = {3}
            /\ args[4] = <<ToString(config.sysmem)>>
            /\ Pos("--cpu-bind") = (IF pinned THEN {5} ELSE {})
            /\ pinned => BindValue(args[6], ranks)
            /\ config.ranks_per_node > 1 =>
                  /\ Len(args) = fixed + 4
                  /\ SubSeq(args, fixed + 1, fixed + 4) =
                         <<<<"--launcher">>, <<config.launcher>>,
                           <<"--ranks-per-node">>,
                           <<ToString(config.ranks_per_node)>>>>

C19_Witness ==
    /\ call.method = "shard_args"
    /\ kind = "cpus"
    /\ config.cpus = 1
    /\ call.shard = Shard(<<<<0, 1>>, <<2, 3>>>>)
    /\ call.out = <<<<"--cpus">>, <<"1">>, <<"--sysmem">>, <<"4000">>,
                    <<"--cpu-bind">>, <<"0", ",", "1", "/", "2", ",", "3">>,
                    <<"--launcher">>, <<"srun">>, <<"--ranks-per-node">>, <<"2">>>>

\* C20: every planning call follows Unplanned -> Planning -> exactly one of
\* Planned or Failed; Planned yields a StageSpec, and Failed surfaces a
\* resource-exhausted or an invalid-configuration error and nothing else, also
\* for configs where procs_per_rank or gpus is 0 and for inventories with no
\* GPUs.
C20_PlanningOutcome ==
    /\ pc \in {"Unplanned", "Planning", "Planned", "Failed"}
    /\ pc = "Planned" => result.ok
    /\ pc = "Failed" =>
          /\ ~result.ok
          /\ ResourceExhausted(result) \/ InvalidConfiguration(result)

(***************************************************************************)
(* Properties of two planning calls on the same inputs.                    *)
(***************************************************************************)

NormalPath == Planned /\ ~result.warned

\* The CPU groups whose core ids make up a RankShard.
GroupsOf(rank) ==
    {k \in 1..Len(system.cpus) : Elems(system.cpus[k].ids) \cap Elems(rank) # {}}

\* C22: on the normal path of the OMP planner the plan has exactly workers
\* shards, and rank j of shard i holds, in ascending order, the core ids of the
\* CPU groups at positions [(j + i*ranks_per_node)*procs_per_rank,
\* (j + i*ranks_per_node + 1)*procs_per_rank), with
\* procs_per_rank = omps*ompthreads + utility + strict; this is the layout the
\* CPU planner produces for the same procs_per_rank, worker count and inventory.
C22_OmpNormalPath ==
    LET procs == config.omps * config.ompthreads + config.utility
                 + (IF config.cpu_pin = "strict" THEN 1 ELSE 0)
        rpn == config.ranks_per_node
    IN  (NormalPath /\ kind = "openmp") =>
           /\ Len(result.shards) = result.workers
           /\ result.workers * rpn * procs <= Len(system.cpus)
           /\ \A i \in 0..(result.workers - 1) :
                 /\ Len(result.shards[i + 1].ranks) = rpn
                 /\ \A j \in 0..(rpn - 1) :
                       LET rank == result.shards[i + 1].ranks[j + 1]
                       IN  /\ Ascending(rank)
                           /\ Elems(rank) =
                                 UNION {Elems(system.cpus[k + 1].ids) :
                                          k \in ((j + i * rpn) * procs)
                                                ..((j + i * rpn + 1) * procs - 1)}
           /\ result.shards =
                  CPU_compute_spec([config EXCEPT !.cpus = config.omps * config.ompthreads,
                                                  !.workers = Some(result.workers)],
                                   system).shards

C22_Witness ==
    /\ NormalPath
    /\ kind = "openmp"
    /\ config.ranks_per_node = 2
    /\ config.cpu_pin = "strict"
    /\ config.omps = 1 /\ config.ompthreads = 1 /\ config.utility = 0
    /\ Len(system.cpus) = 6
    /\ result.workers = 1
    /\ result.shards = <<Shard(<<<<0, 1, 6, 7>>, <<2, 3, 8, 9>>>>)>>

\* C23: for the CPU and OMP planners on the normal path, a valid explicit
\* request r (1 <= r <= computed workers) yields a StageSpec with workers == r
\* whose shard list is exactly the first r shards of the StageSpec produced
\* for the same inputs with no request.
C23_RequestIsPrefix ==
    LET procs == (IF kind = "cpus" THEN config.cpus
                  ELSE config.omps * config.ompthreads)
                 + config.utility + (IF config.cpu_pin = "strict" THEN 1 ELSE 0)
        cores == Len(system.cpus) \div (procs * config.ranks_per_node)
        memory == (system.memory * 10)
                      \div ((SMALL_SYSMEM + config.omps * config.numamem)
                            * config.bloat_factor)
        computed == IF kind = "openmp" /\ memory < cores THEN memory ELSE cores
    IN  (/\ replan.made
         /\ IsNone(replan.config.workers)
         /\ kind \in {"cpus", "openmp"}
         /\ Requested
         /\ procs * config.ranks_per_node # 0
         /\ cores > 0
         /\ 1 <= Val(config.workers)
         /\ Val(config.workers) <= computed)
        => /\ Planned
           /\ result.workers = Val(config.workers)
           /\ Len(result.shards) = Val(config.workers)
           /\ replan.out.ok
           /\ result.shards = SubSeq(replan.out.shards, 1, Val(config.workers))

\* C24: for every shard of a plan of the GPU planner, shard_args emits
\* --fbmem, --gpus with the configured gpus per test (the number of GPUs in
\* each rank of the shard), --gpu-bind listing for each rank the inventory
\* ids of the GPU positions in that rank's RankShard, --sysmem SMALL_SYSMEM,
\* --cpus 1 and --utility, followed by the multi-node arguments.
C24_GpuShardArgs ==
    (call.method = "shard_args" /\ kind = "cuda") =>
        LET args == call.out
            ranks == call.shard.ranks
            ids == [n \in 1..Len(ranks) |->
                       [m \in 1..Len(ranks[n]) |-> system.gpus[ranks[n][m] + 1].id]]
        IN  /\ \A n \in 1..Len(ranks) : Len(ranks[n]) = config.gpus
            /\ Len(args) >= 12
            /\ SubSeq(args, 1, 5) =
                   <<<<"--fbmem">>, <<ToString(config.fbmem)>>,
                     <<"--gpus">>, <<ToString(config.gpus)>>, <<"--gpu-bind">>>>
            /\ BindValue(args[6], ids)
            /\ SubSeq(args, 7, 12) =
                   <<<<"--sysmem">>, <<ToString(SMALL_SYSMEM)>>, <<"--cpus">>, <<"1">>,
                     <<"--utility">>, <<ToString(config.utility)>>>>
            /\ config.ranks_per_node > 1 =>
                  /\ Len(args) = 16
                  /\ SubSeq(args, 13, 16) =
                         <<<<"--launcher">>, <<config.launcher>>,
                           <<"--ranks-per-node">>,
                           <<ToString(config.ranks_per_node)>>>>

\* The second base shard of four GPUs with ids 1, 3, 5, 7, two ranks of one GPU.
C24_Witness ==
    /\ call.method = "shard_args"
    /\ kind = "cuda"
    /\ Len(system.gpus) = 4
    /\ call.shard = Shard(<<<<2>>, <<3>>>>)
    /\ config.fbmem = 2048
    /\ call.out = <<<<"--fbmem">>, <<"2048">>, <<"--gpus">>, <<"1">>,
                    <<"--gpu-bind">>, <<"5", "/", "7">>,
                    <<"--sysmem">>, <<"300">>, <<"--cpus">>, <<"1">>,
                    <<"--utility">>, <<"1">>,
                    <<"--launcher">>, <<"srun">>, <<"--ranks-per-node">>, <<"2">>>>

\* A launcher running result.workers processes and drawing shards round-robin
\* from shard s on holds shards s, s + 1, ..., s + workers - 1 (cyclically) at
\* once: how many of those processes use GPU position g.
Users(s, g) ==
    Cardinality({k \in 0..(result.workers - 1) :
        \E j \in 1..Len(result.shards[((s - 1 + k) % Len(result.shards)) + 1].ranks) :
            g \in Elems(result.shards[((s - 1 + k) % Len(result.shards)) + 1].ranks[j])})

\* C25: in every StageSpec of the GPU planner, any run of workers consecutive
\* shards of the shard sequence, taken cyclically, uses each physical GPU in
\* at most oversub_factor of those shards, so the combined fbmem * bloat_factor
\* demand on a GPU never exceeds the memory of the smallest GPU.
C25_GpuOversubscriptionBound ==
    (Planned /\ kind = "cuda") =>
        LET oversub_factor == (min_total(system.gpus) * 10)
                                  \div (KiB_PER_MB * config.fbmem * config.bloat_factor)
        IN  \A s \in 1..Len(result.shards) :
               \A g \in 0..(Len(system.gpus) - 1) :
                  /\ Users(s, g) <= oversub_factor
                  /\ Users(s, g) * config.fbmem * config.bloat_factor * KiB_PER_MB
                         <= min_total(system.gpus) * 10

\* Four GPUs, two base shards of two ranks, six workers over shards repeated
\* three times: every GPU is used by three of the six processes.
C25_Witness ==
    /\ Planned
    /\ kind = "cuda"
    /\ config.ranks_per_node = 2
    /\ Len(system.gpus) = 4
    /\ result.workers = 6
    /\ Len(result.shards) = 6
    /\ Users(3, 0) = 3

\* C26: in every StageSpec of the Linux OMP planner, normal path or fallback,
\* workers * (SMALL_SYSMEM + omps*numamem) * bloat_factor <= system memory,
\* and in every StageSpec of the GPU planner
\* workers * SMALL_SYSMEM * bloat_factor <= system memory.
C26_HostMemoryBudget ==
    /\ (Planned /\ kind = "openmp") =>
           result.workers * (SMALL_SYSMEM + config.omps * config.numamem)
               * config.bloat_factor <= system.memory * 10
    /\ (Planned /\ kind = "cuda") =>
           result.workers * SMALL_SYSMEM * config.bloat_factor <= system.memory * 10

\* Three workers of 300 MB in 1000 MB: the budget is what limits the count.
C26_Witness ==
    /\ Planned
    /\ kind = "openmp"
    /\ system.memory = 1000
    /\ config.numamem = 0
    /\ config.bloat_factor = 10
    /\ Len(system.cpus) = 6
    /\ config.omps = 1 /\ config.ompthreads = 1 /\ config.utility = 0
    /\ config.cpu_pin = "none"
    /\ config.ranks_per_node = 1
    /\ result.workers = 3

\* C27: shard construction never reads outside the inventory: on the normal
\* path of the OMP and CPU planners every CPU-group position used, up to
\* workers*ranks_per_node*procs_per_rank - 1, is below len(cpus); in the GPU
\* planner every GPU position placed in a shard, up to
\* degree*ranks_per_node*gpus - 1, is below N, so that shard_args finds an
\* inventory GPU for every position of a shard; for every valid request.
C27_PositionsInRange ==
    LET rpn == config.ranks_per_node
        procs == (IF kind = "cpus" THEN config.cpus
                  ELSE config.omps * config.ompthreads)
                 + config.utility + (IF config.cpu_pin = "strict" THEN 1 ELSE 0)
    IN  /\ Finished => result.why # "index_out_of_range"
        /\ (NormalPath /\ kind \in {"cpus", "openmp"}) =>
               /\ result.workers * rpn * procs - 1 < Len(system.cpus)
               /\ \A n \in 1..Len(result.shards) :
                     \A j \in 1..Len(result.shards[n].ranks) :
                        Elems(result.shards[n].ranks[j]) \subseteq AllCores
        /\ (Planned /\ kind = "cuda") =>
               /\ (Len(system.gpus) \div (config.gpus * rpn)) * rpn * config.gpus - 1
                      < Len(system.gpus)
               /\ \A n \in 1..Len(result.shards) :
                     \A j \in 1..Len(result.shards[n].ranks) :
                        \A g \in Elems(result.shards[n].ranks[j]) :
                           0 <= g /\ g < Len(system.gpus)

\* The last CPU group is the last position used: 1 worker of 2 ranks of 3
\* groups on 6 groups.
C27_Witness ==
    /\ NormalPath
    /\ kind = "openmp"
    /\ config.ranks_per_node = 2
    /\ config.omps = 1 /\ config.ompthreads = 2 /\ config.utility = 1
    /\ config.cpu_pin = "none"
    /\ Len(system.cpus) = 6
    /\ result.workers = 1
    /\ result.shards[1].ranks[2] = <<3, 4, 5, 9, 10, 11>>

\* C28: on the normal path of the CPU and OMP planners, over an inventory of
\* pairwise disjoint CPU groups, no core id appears in the RankShards of two
\* different shards, and every RankShard covers exactly procs_per_rank CPU
\* groups (all the core ids of each of them).
C28_ExclusiveCores ==
    LET procs == (IF kind = "cpus" THEN config.cpus
                  ELSE config.omps * config.ompthreads)
                 + config.utility + (IF config.cpu_pin = "strict" THEN 1 ELSE 0)
    IN  (NormalPath /\ kind \in {"cpus", "openmp"}) =>
            /\ \A n, m \in 1..Len(result.shards) :
                  n # m =>
                     \A j \in 1..Len(result.shards[n].ranks) :
                        \A k \in 1..Len(result.shards[m].ranks) :
                           Elems(result.shards[n].ranks[j])
                              \cap Elems(result.shards[m].ranks[k]) = {}
            /\ \A n \in 1..Len(result.shards) :
                  \A j \in 1..Len(result.shards[n].ranks) :
                     LET rank == result.shards[n].ranks[j]
                     IN  /\ Cardinality(GroupsOf(rank)) = procs
                         /\ Elems(rank)
                               = UNION {Elems(system.cpus[g].ids) : g \in GroupsOf(rank)}

\* Three workers of two ranks each, every rank on one hyperthreaded group.
C28_Witness ==
    /\ NormalPath
    /\ kind = "openmp"
    /\ config.ranks_per_node = 2
    /\ config.omps = 1 /\ config.ompthreads = 1 /\ config.utility = 0
    /\ config.cpu_pin = "none"
    /\ Len(system.cpus) = 6
    /\ Len(system.cpus[1].ids) = 2
    /\ result.workers = 3
    /\ result.shards[2].ranks = <<<<2, 8>>, <<3, 9>>>>

\* The oversubscription fallback was taken: a CPU or OMP plan was returned
\* although the inventory holds fewer CPU groups than one worker's ranks
\* reserve.
TookFallback ==
    /\ Planned
    /\ kind \in {"cpus", "openmp"}
    /\ Len(system.cpus) <
           ((IF kind = "cpus" THEN config.cpus
             ELSE config.omps * config.ompthreads)
            + config.utility + (IF config.cpu_pin = "strict" THEN 1 ELSE 0))
           * config.ranks_per_node

\* C29: a planning call emits one warning exactly when it returns the single
\* all-cores worker of the oversubscription fallback; normal-path plans,
\* failed plans and the GPU and OSX planners emit none, and a planning call
\* changes nothing but its own result and the warning count (the stage kind,
\* the configuration, the inventory, the resolver's arguments and result and
\* the records of other calls are left as they were).
C29_WarningsOnlyOnFallback ==
    [][(pc = "Planning" /\ pc' \in {"Planned", "Failed"}) =>
          /\ warnings' = warnings + (IF TookFallback' THEN 1 ELSE 0)
          /\ TookFallback' => SingleOversubscribedWorker'
          /\ TookFallback' <=> result'.warned
          /\ UNCHANGED <<kind, config, system, r_pc, r_args, r_out, call, replan>>]_vars

\* The fallback on two hyperthreaded CPU groups for a test that needs five,
\* and its warning.
C29_Witness ==
    /\ TookFallback
    /\ kind = "openmp"
    /\ config.ranks_per_node = 1
    /\ config.omps = 2 /\ config.ompthreads = 2 /\ config.utility = 1
    /\ config.cpu_pin = "partial"
    /\ Len(system.cpus) = 2
    /\ warnings = 1
    /\ result.shards = <<Shard(<<<<0, 1, 2, 3>>>>)>>

\* The Linux and OSX OMP planners agree on a configuration and inventory: both
\* return the same number of workers, or both fail with the same error of the
\* resolver.
SameWorkersOrFailure(linux, osx) ==
    /\ linux.ok = osx.ok
    /\ linux.ok => linux.workers = osx.workers /\ ~linux.workers_is_float
    /\ ~linux.ok => linux.exc = osx.exc /\ linux.why = osx.why

\* C30: the OSX OMP planner computes
\* workers = resolve(floor(len(cpus) / (omps*ompthreads + utility)), requested)
\* and returns exactly that many placeholder shards, shard i being the single
\* rank (i,), or fails as the resolver fails; and for ranks_per_node == 1,
\* cpu_pin not strict, omp_workers > 0 and mem_workers >= omp_workers the Linux
\* and OSX OMP planners yield the same worker count, or the same resolver
\* failure, for the same inventory, configuration and request.
C30_OsxOmpPlanner ==
    LET procs == config.omps * config.ompthreads + config.utility
    IN  /\ (Finished /\ kind = "openmp_osx" /\ procs # 0) =>
               LET resolved == adjust_workers(Len(system.cpus) \div procs,
                                              config.workers, None)
               IN  /\ Planned <=> resolved.ok
                   /\ Planned =>
                         /\ result.workers = resolved.value
                         /\ Len(result.shards) = result.workers
                         /\ \A i \in 1..Len(result.shards) :
                               result.shards[i] = Shard(<<<<i - 1>>>>)
                   /\ ~Planned =>
                         result.exc = resolved.exc /\ result.why = resolved.why
        /\ (/\ Finished
            /\ kind \in {"openmp", "openmp_osx"}
            /\ procs # 0
            /\ config.ranks_per_node = 1
            /\ Relaxed
            /\ Len(system.cpus) \div procs > 0
            /\ OMP_mem_workers(config, system) >= Len(system.cpus) \div procs) =>
               IF kind = "openmp"
               THEN SameWorkersOrFailure(result, OSX_OMP_compute_spec(config, system))
               ELSE SameWorkersOrFailure(OMP_compute_spec(config, system), result)

\* Six CPU groups, three per test: two placeholder shards on OSX, two workers
\* on Linux.
C30_Witness ==
    /\ Planned
    /\ kind = "openmp_osx"
    /\ config.omps = 1 /\ config.ompthreads = 2 /\ config.utility = 1
    /\ config.cpu_pin = "none"
    /\ IsNone(config.workers)
    /\ Len(system.cpus) = 6
    /\ result.workers = 2
    /\ result.shards = <<Shard(<<<<0>>>>), Shard(<<<<1>>>>)>>
    /\ OMP_compute_spec(config, system).workers = 2

====
